---- MODULE Spec2Model ----
(***************************************************************************)
(* A model of the BLAKE2b directory scanner of blake2_check.               *)
(*                                                                         *)
(* The modelled program is src/blake2b_isos/blake2b_1.py, the concurrent   *)
(* variant that collects its workers' results: main() parses the command   *)
(* line and calls check_blake2_sums(), which validates the directory,      *)
(* enumerates the candidate files, submits one process_file() task per     *)
(* candidate to a ThreadPoolExecutor, drains the futures with              *)
(* as_completed() and logs a summary.  Every worker runs                   *)
(* calculate_blake2b(): stat, open, a read loop that folds each chunk      *)
(* into the hash, and hexdigest.                                           *)
(*                                                                         *)
(* Abstractions.                                                           *)
(*  - A file name is a sequence of one-character strings, so that          *)
(*    pathlib's suffix and str.lower are computed, not assumed.            *)
(*  - The BLAKE2b state is the sequence of bytes fed to update(); the      *)
(*    hex digest is an injective image of that sequence (an ideal,         *)
(*    collision-free hash), so two digests are equal exactly when the      *)
(*    hash was fed the same bytes.                                         *)
(*  - The file system is an environment that may remove a file, revoke     *)
(*    its read permission or make its device fail while the scan runs.     *)
(***************************************************************************)
EXTENDS Integers, Sequences, FiniteSets, TLC

(***************************************************************************)
(* Bounds of the model.                                                    *)
(***************************************************************************)
\* The most entries of the file-system universe a scanned tree holds.
MaxEntries == 3
\* The most file-system faults the environment injects during one scan.
MaxFaults == 1
\* The worker threads of the pool (ThreadPoolExecutor() takes
\* min(32, cpu_count + 4); the model keeps it below the number of tasks so
\* that tasks queue).
MaxWorkers == 2
\* io.DEFAULT_BUFFER_SIZE scaled down to the size of the modelled files.
DEFAULT_BUFFER_SIZE == 2

(***************************************************************************)
(* Strings as sequences of characters.                                     *)
(***************************************************************************)
\* str.lower() on one character of the modelled alphabet.
LowerChar(c) ==
    CASE c = "I" -> "i"
      [] c = "S" -> "s"
      [] c = "O" -> "o"
      [] c = "T" -> "t"
      [] c = "X" -> "x"
      [] OTHER -> c

\* str.lower(): every character lowered, the length kept.
Lower(s) == [i \in 1..Len(s) |-> LowerChar(s[i])]

\* str.rfind('.'), 1-based; 0 when the name holds no dot.
RFindDot(name) ==
    LET dots == {i \in 1..Len(name) : name[i] = "."}
    IN  IF dots = {} THEN 0 ELSE CHOOSE i \in dots : \A j \in dots : j <= i

\* A plausible slip: the extension taken from the first dot of the name.
SuffixFromFirstDot(name) ==
    LET dots == {i \in 1..Len(name) : name[i] = "."}
        i == IF dots = {} THEN 0 ELSE CHOOSE k \in dots : \A j \in dots : k <= j
    IN  IF 1 < i /\ i < Len(name) THEN SubSeq(name, i, Len(name)) ELSE <<>>

\* pathlib.PurePath.suffix: the name from its last dot on, empty when the
\* name has no dot, starts with its only dot or ends with a dot.
Suffix(name) ==
    LET i == RFindDot(name)
    IN  IF 1 < i /\ i < Len(name) THEN SubSeq(name, i, Len(name)) ELSE <<>>

(***************************************************************************)
(* The file-system universe the scanned trees are drawn from.              *)
(***************************************************************************)
Entry(id, name, kind, parent, content) ==
    [id |-> id, name |-> name, kind |-> kind, parent |-> parent, content |-> content]

Universe ==
    { Entry("a.iso",     <<"a", ".", "i", "s", "o">>,                "file", "top", <<1, 2, 3>>),
      Entry("b.ISO",     <<"b", ".", "I", "S", "O">>,                "file", "top", <<>>),
      Entry("d.txt",     <<"d", ".", "t", "x", "t">>,                "file", "top", <<6>>),
      Entry("e.iso.txt", <<"e", ".", "i", "s", "o", ".", "t", "x", "t">>, "file", "top", <<7>>),
      Entry("f.txt.iso", <<"f", ".", "t", "x", "t", ".", "i", "s", "o">>, "file", "top", <<8>>),
      Entry(".iso",      <<".", "i", "s", "o">>,                     "file", "top", <<9>>),
      Entry("iso",       <<"i", "s", "o">>,                          "file", "top", <<9>>),
      Entry("sub.iso",   <<"s", "u", "b", ".", "i", "s", "o">>,      "dir",  "top", <<>>),
      Entry("sub.iso/n.iso", <<"n", ".", "i", "s", "o">>,            "file", "sub.iso", <<1>>) }

AllIds == {e.id : e \in Universe}

EntryOf(id) == CHOOSE e \in Universe : e.id = id

\* A tree: at most MaxEntries entries, a nested file only with its directory.
WellFormed(S) ==
    \A e \in S : e.parent # "top" => \E d \in S : d.id = e.parent /\ d.kind = "dir"

Layouts == {S \in SUBSET Universe : Cardinality(S) <= MaxEntries /\ WellFormed(S)}

\* The values of --ext that are exercised.
Exts == { <<".", "i", "s", "o">>, <<".", "I", "S", "O">>, <<".", "I", "s", "o">>,
          <<".", "t", "x", "t">> }

\* The values of --chunk-size that are exercised: invalid ones, one byte,
\* the default and one larger than every file.
ChunkSizes == {-2, -1, 0, 1, DEFAULT_BUFFER_SIZE, DEFAULT_BUFFER_SIZE + 2}

VARIABLES
    isDir,          \* the target path resolves to an existing directory
    dirents,        \* the entries of the tree under the target path
    ext,            \* args.ext
    chunk_size,     \* args.chunk_size
    phase,          \* position of the main thread
    files,          \* check_blake2_sums: the list `files`, as ids
    fut,            \* state of each file's future
    tpc,            \* position of each worker inside calculate_blake2b
    ret,            \* value a finished task returned (<<>> is None)
    exc,            \* exception a task raised ("" is none)
    pos,            \* read offset of each open file
    fed,            \* bytes folded into each task's hash, in order
    handle,         \* the file is open in its task
    fs,             \* file-system condition of each file
    faults,         \* faults injected so far
    collected,      \* futures whose result() the collecting loop has taken
    success_count,  \* check_blake2_sums: success_count
    digestLines,    \* per file, "<name> BLAKE2b: <digest>" lines logged
    errorLines,     \* per file, "Error reading file" lines logged
    configErrors,   \* "not a valid directory" lines logged
    warnings,       \* "No files with extension" lines logged
    summary,        \* "Checksum completed. s/t" lines logged, as <<s, t>>
    exited,         \* the process has ended
    exitCode        \* its exit status

vars == <<isDir, dirents, ext, chunk_size, phase, files, fut, tpc, ret, exc, pos, fed,
          handle, fs, faults, collected, success_count, digestLines, errorLines,
          configErrors, warnings, summary, exited, exitCode>>

inputVars == <<isDir, dirents, ext, chunk_size>>
workerVars == <<fut, tpc, ret, exc, pos, fed, handle>>
logVars == <<digestLines, errorLines, configErrors, warnings, summary>>
envVars == <<fs, faults>>

(***************************************************************************)
(* Enumeration: line 59 of check_blake2_sums.                              *)
(***************************************************************************)
\* A plausible slip: a recursive listing (rglob) instead of iterdir.
IterDirRecursive(tree) == tree

\* Path.iterdir(): the immediate children of the target directory.
IterDir(tree) == {e \in tree : e.parent = "top"}

\* Path.is_file().
IsFile(e) == e.kind = "file"

\* The filter of the list comprehension: f.is_file() and f.suffix.lower() == ext.
IsCandidate(e, x) == IsFile(e) /\ Lower(Suffix(e.name)) = x

\* files = [f for f in dir_path.iterdir() if ...]
Enumerate(tree, x) == {e.id : e \in {d \in IterDir(tree) : IsCandidate(d, x)}}

(***************************************************************************)
(* The hash and the read call.                                             *)
(***************************************************************************)
Min(a, b) == IF a <= b THEN a ELSE b

\* None, the value of a task that produced no digest.
None == <<>>

\* A plausible slip: a digest that is empty, hence falsy, for empty input.
HexDigestRaw(m) == m

\* blake2.hexdigest() after the bytes m were fed: never empty, and
\* different for different m.
HexDigest(m) == <<Len(m)>> \o m

\* Python truthiness of a task's return value: `if result:`.
Truthy(v) == v # None

\* A plausible slip: one module-level hash object shared by every task.
SharedHash(f) == CHOOSE g \in AllIds : TRUE

\* Line 15: blake2 is a local of calculate_blake2b, so the hash state a
\* task folds its chunks into is its own.
HashOf(f) == f

\* A plausible slip: the digest of what was read so far returned on error.
PartialDigestOnError(m) == HexDigest(m)

\* Lines 41-43: the value returned when open or read raised OSError, the
\* bytes m having been folded so far.
ValueOnError(m) == None

\* A plausible slip: the file left open when the block is left by an error.
LeakedOnError(h) == h

\* Line 22: leaving `with file_path.open('rb') as f` by an exception closes
\* the file.
HandleAfterError(h) == FALSE

\* A plausible slip: a read that returns n bytes starting one byte late.
ReadChunkSkipping(content, p, n) ==
    IF n < 0
    THEN SubSeq(content, p + 1, Len(content))
    ELSE SubSeq(content, p + 2, Min(p + 1 + n, Len(content)))

\* f.read(n) at offset p of a file opened 'rb': at most n bytes, all the
\* rest when n = -1, nothing when n = 0 or at end-of-file.  (n < -1 raises
\* and is decided before this is used.)
ReadChunk(content, p, n) ==
    IF n < 0
    THEN SubSeq(content, p + 1, Len(content))
    ELSE SubSeq(content, p + 1, Min(p + n, Len(content)))

(***************************************************************************)
(* Initial states: the command line and the tree it is run on.             *)
(***************************************************************************)
InitScan ==
    /\ phase = "Idle"
    /\ files = {}
    /\ fut = [f \in AllIds |-> "none"]
    /\ tpc = [f \in AllIds |-> "idle"]
    /\ ret = [f \in AllIds |-> None]
    /\ exc = [f \in AllIds |-> ""]
    /\ pos = [f \in AllIds |-> 0]
    /\ fed = [f \in AllIds |-> <<>>]
    /\ handle = [f \in AllIds |-> FALSE]
    /\ fs = [f \in AllIds |-> "ok"]
    /\ faults = 0
    /\ collected = {}
    /\ success_count = 0
    /\ digestLines = [f \in AllIds |-> 0]
    /\ errorLines = [f \in AllIds |-> 0]
    /\ configErrors = 0
    /\ warnings = 0
    /\ summary = <<>>
    /\ exited = FALSE
    /\ exitCode = 0

Init ==
    /\ isDir \in BOOLEAN
    /\ dirents \in IF isDir THEN Layouts ELSE {{}}
    /\ ext \in Exts
    /\ chunk_size \in ChunkSizes
    /\ InitScan

(***************************************************************************)
(* The main thread: main() and check_blake2_sums().                        *)
(***************************************************************************)
\* Lines 53-57: the directory check.  An invalid directory is logged and
\* check_blake2_sums returns.
CheckDir ==
    /\ phase = "Idle"
    /\ IF isDir
       THEN /\ phase' = "Enumerating"
            /\ UNCHANGED configErrors
       ELSE /\ phase' = "Failed"
            /\ configErrors' = configErrors + 1
    /\ UNCHANGED <<inputVars, files, workerVars, envVars, collected, success_count,
                   digestLines, errorLines, warnings, summary, exited, exitCode>>

\* Lines 59-64: the candidate list; an empty list is warned about and
\* check_blake2_sums returns.
EnumerateFiles ==
    /\ phase = "Enumerating"
    /\ files' = Enumerate(dirents, ext)
    /\ IF files' = {}
       THEN /\ warnings' = warnings + 1
            /\ phase' = "Done"
       ELSE /\ UNCHANGED warnings
            /\ phase' = "Dispatching"
    /\ UNCHANGED <<inputVars, workerVars, envVars, collected, success_count,
                   digestLines, errorLines, configErrors, summary, exited, exitCode>>

\* Line 68: executor.submit(process_file, file, ...) for one more file of
\* the list; after the last one the collecting loop starts.
Submit(f) ==
    /\ phase = "Dispatching"
    /\ f \in files
    /\ fut[f] = "none"
    /\ fut' = [fut EXCEPT ![f] = "pending"]
    /\ phase' = IF \A g \in files \ {f} : fut[g] # "none"
                THEN "Aggregating" ELSE "Dispatching"
    /\ UNCHANGED <<inputVars, files, tpc, ret, exc, pos, fed, handle, envVars, collected,
                   success_count, logVars, exited, exitCode>>

\* A plausible slip: only futures that ended with a value count as finished.
FinishedWithValue(f) == fut[f] = "done"

\* A future has finished, with a value or with an exception.
Finished(f) == fut[f] \in {"done", "raised"}

\* A plausible slip: every collected result counted, with or without digest.
CountEvery(v) == 1

\* A plausible slip: a success counted by the worker and by the collector.
CountTwice(v) == IF Truthy(v) THEN 2 ELSE 0

\* Lines 71-72: `if result: success_count += 1`.
CountOf(v) == IF Truthy(v) THEN 1 ELSE 0

\* Lines 69-72: as_completed yields a finished future and future.result()
\* returns its value, or raises the exception the task raised, which ends
\* the loop and enters the executor's __exit__.
Collect(f) ==
    /\ phase = "Aggregating"
    /\ f \in files \ collected
    /\ Finished(f)
    /\ IF fut[f] = "raised"
       THEN /\ phase' = "Unwinding"
            /\ UNCHANGED <<collected, success_count>>
       ELSE /\ collected' = collected \cup {f}
            /\ success_count' = success_count + CountOf(ret[f])
            /\ UNCHANGED phase
    /\ UNCHANGED <<inputVars, files, workerVars, envVars, logVars, exited, exitCode>>

\* A plausible slip: shutdown(wait=False), which returns at once.
ShutdownNoWait == TRUE

\* Line 67: ThreadPoolExecutor.__exit__ returns when every submitted task
\* has finished.
ShutdownWaited == \A f \in files : Finished(f)

\* Lines 69, 67, 74: as_completed is exhausted, the with-block is left
\* (every task has finished) and the summary is logged.
Summarise ==
    /\ phase = "Aggregating"
    /\ collected = files
    /\ ShutdownWaited
    /\ summary' = Append(summary, <<success_count, Cardinality(files)>>)
    /\ phase' = "Done"
    /\ UNCHANGED <<inputVars, files, workerVars, envVars, collected, success_count,
                   digestLines, errorLines, configErrors, warnings, exited, exitCode>>

\* Line 67 on an exception: ThreadPoolExecutor.__exit__ is shutdown(wait=True),
\* which lets every submitted task run to its end; then the exception leaves
\* check_blake2_sums and main.
Unwind ==
    /\ phase = "Unwinding"
    /\ ShutdownWaited
    /\ phase' = "Crashed"
    /\ UNCHANGED <<inputVars, files, workerVars, envVars, collected, success_count,
                   logVars, exited, exitCode>>

\* Lines 91-94: main returns and the interpreter exits with status 0, or the
\* uncaught exception ends it with status 1.
ProcessExit ==
    /\ ~exited
    /\ phase \in {"Done", "Failed", "Crashed"}
    /\ exited' = TRUE
    /\ exitCode' = IF phase = "Crashed" THEN 1 ELSE 0
    /\ UNCHANGED <<inputVars, phase, files, workerVars, envVars, collected,
                   success_count, logVars>>

(***************************************************************************)
(* The worker threads: process_file() and calculate_blake2b().             *)
(***************************************************************************)
Running == {f \in AllIds : fut[f] = "running"}

\* A plausible slip: one new thread per task, with no limit.
ThreadPerTask == TRUE

\* Line 67: the pool has a thread that is not running a task.
WorkerFree == Cardinality(Running) < MaxWorkers

\* A pool thread takes a queued task: at most MaxWorkers run at a time.
StartTask(f) ==
    /\ fut[f] = "pending"
    /\ WorkerFree
    /\ fut' = [fut EXCEPT ![f] = "running"]
    /\ tpc' = [tpc EXCEPT ![f] = "stat"]
    /\ UNCHANGED <<inputVars, phase, files, ret, exc, pos, fed, handle, envVars,
                   collected, success_count, logVars, exited, exitCode>>

\* Line 16: file_path.stat(), before the try block.  On a removed file it
\* raises FileNotFoundError, which no handler of the task catches: the
\* future ends with the exception.
StatFile(f) ==
    /\ fut[f] = "running"
    /\ tpc[f] = "stat"
    /\ IF fs[f] = "removed"
       THEN /\ fut' = [fut EXCEPT ![f] = "raised"]
            /\ exc' = [exc EXCEPT ![f] = "FileNotFoundError"]
            /\ tpc' = [tpc EXCEPT ![f] = "idle"]
       ELSE /\ tpc' = [tpc EXCEPT ![f] = "open"]
            /\ UNCHANGED <<fut, exc>>
    /\ UNCHANGED <<inputVars, phase, files, ret, pos, fed, handle, envVars, collected,
                   success_count, logVars, exited, exitCode>>

\* Line 22: file_path.open('rb') inside the try block.  A removed or
\* unreadable file raises OSError, which lines 41-43 log and turn into None.
OpenFile(f) ==
    /\ fut[f] = "running"
    /\ tpc[f] = "open"
    /\ IF fs[f] \in {"removed", "unreadable"}
       THEN /\ errorLines' = [errorLines EXCEPT ![f] = @ + 1]
            /\ ret' = [ret EXCEPT ![f] = ValueOnError(fed[HashOf(f)])]
            /\ tpc' = [tpc EXCEPT ![f] = "returning"]
            /\ UNCHANGED <<pos, handle>>
       ELSE /\ handle' = [handle EXCEPT ![f] = TRUE]
            /\ pos' = [pos EXCEPT ![f] = 0]
            /\ tpc' = [tpc EXCEPT ![f] = "read"]
            /\ UNCHANGED <<ret, errorLines>>
    /\ UNCHANGED <<inputVars, phase, files, fut, exc, fed, envVars, collected,
                   success_count, digestLines, configErrors, warnings, summary,
                   exited, exitCode>>

\* Lines 30-39 and 41-43: one pass of the read loop.  A failing device
\* raises OSError (logged, None); a length below -1 raises ValueError, which
\* is not an OSError and leaves the task; an empty chunk ends the loop and
\* the digest is returned; any other chunk is folded into the hash.  The
\* with-block closes the file on every way out.
ReadStep(f) ==
    /\ fut[f] = "running"
    /\ tpc[f] = "read"
    /\ LET chunk == ReadChunk(EntryOf(f).content, pos[f], chunk_size)
       IN  IF fs[f] = "ioerror"
           THEN /\ errorLines' = [errorLines EXCEPT ![f] = @ + 1]
                /\ ret' = [ret EXCEPT ![f] = ValueOnError(fed[HashOf(f)])]
                /\ handle' = [handle EXCEPT ![f] = HandleAfterError(@)]
                /\ tpc' = [tpc EXCEPT ![f] = "returning"]
                /\ UNCHANGED <<fut, exc, pos, fed>>
           ELSE IF chunk_size < -1
           THEN /\ fut' = [fut EXCEPT ![f] = "raised"]
                /\ exc' = [exc EXCEPT ![f] = "ValueError"]
                /\ handle' = [handle EXCEPT ![f] = HandleAfterError(@)]
                /\ tpc' = [tpc EXCEPT ![f] = "idle"]
                /\ UNCHANGED <<ret, pos, fed, errorLines>>
           ELSE IF chunk = <<>>
           THEN /\ ret' = [ret EXCEPT ![f] = HexDigest(fed[HashOf(f)])]
                /\ handle' = [handle EXCEPT ![f] = FALSE]
                /\ tpc' = [tpc EXCEPT ![f] = "returning"]
                /\ UNCHANGED <<fut, exc, pos, fed, errorLines>>
           ELSE /\ fed' = [fed EXCEPT ![HashOf(f)] = @ \o chunk]
                /\ pos' = [pos EXCEPT ![f] = @ + Len(chunk)]
                /\ UNCHANGED <<fut, exc, ret, handle, tpc, errorLines>>
    /\ UNCHANGED <<inputVars, phase, files, envVars, collected, success_count,
                   digestLines, configErrors, warnings, summary, exited, exitCode>>

\* Lines 45-49: process_file logs the digest line when it got a digest and
\* returns; the future ends with that value.
ReturnTask(f) ==
    /\ fut[f] = "running"
    /\ tpc[f] = "returning"
    /\ digestLines' = [digestLines EXCEPT ![f] = @ + CountOf(ret[f])]
    /\ fut' = [fut EXCEPT ![f] = "done"]
    /\ tpc' = [tpc EXCEPT ![f] = "idle"]
    /\ UNCHANGED <<inputVars, phase, files, ret, exc, pos, fed, handle, envVars,
                   collected, success_count, errorLines, configErrors, warnings,
                   summary, exited, exitCode>>

(***************************************************************************)
(* The environment: what happens to an enumerated file during the scan.    *)
(***************************************************************************)
FaultKinds == {"removed", "unreadable", "ioerror"}

\* After the enumeration a file is removed, loses its read permission or
\* its device starts failing.  An open descriptor keeps reading a removed
\* or chmod-ed file; a failing device fails the next read.
Fault(f, kind) ==
    /\ phase \in {"Dispatching", "Aggregating", "Unwinding"}
    /\ f \in files
    /\ ~Finished(f)
    /\ fs[f] = "ok"
    /\ faults < MaxFaults
    /\ fs' = [fs EXCEPT ![f] = kind]
    /\ faults' = faults + 1
    /\ UNCHANGED <<inputVars, phase, files, workerVars, collected, success_count,
                   logVars, exited, exitCode>>

(***************************************************************************)
(* The specifications.                                                     *)
(***************************************************************************)
Next ==
    \/ CheckDir
    \/ EnumerateFiles
    \/ \E f \in AllIds : Submit(f)
    \/ \E f \in AllIds : StartTask(f)
    \/ \E f \in AllIds : StatFile(f)
    \/ \E f \in AllIds : OpenFile(f)
    \/ \E f \in AllIds : ReadStep(f)
    \/ \E f \in AllIds : ReturnTask(f)
    \/ \E f \in AllIds : Collect(f)
    \/ Summarise
    \/ Unwind
    \/ ProcessExit
    \/ \E f \in AllIds, kind \in FaultKinds : Fault(f, kind)

Spec == Init /\ [][Next]_vars

\* The steps of the program's own threads: every action but the
\* environment's.
ProgramStep ==
    \/ CheckDir
    \/ EnumerateFiles
    \/ \E f \in AllIds : Submit(f)
    \/ \E f \in AllIds : StartTask(f)
    \/ \E f \in AllIds : StatFile(f)
    \/ \E f \in AllIds : OpenFile(f)
    \/ \E f \in AllIds : ReadStep(f)
    \/ \E f \in AllIds : ReturnTask(f)
    \/ \E f \in AllIds : Collect(f)
    \/ Summarise
    \/ Unwind
    \/ ProcessExit

\* The scan under a scheduler that does not stop the program while one of
\* its threads can take a step (stat, open and read return; a thread that
\* can run is run).  Nothing is assumed of the environment.
\* The command lines of the fair runs: the default extension, and a chunk
\* size of one byte, the default, or one that read rejects.
InitFair ==
    /\ isDir \in BOOLEAN
    /\ dirents \in IF isDir THEN Layouts ELSE {{}}
    /\ ext = <<".", "i", "s", "o">>
    /\ chunk_size \in {-2, 1, DEFAULT_BUFFER_SIZE}
    /\ InitScan

FairSpec == InitFair /\ [][Next]_vars /\ WF_vars(ProgramStep)

(***************************************************************************)
(* Vocabulary of the claims.                                               *)
(***************************************************************************)
Content(f) == EntryOf(f).content

\* The task of f ended with a digest.
Succeeded(f) == fut[f] = "done" /\ Truthy(ret[f])

\* The task of f ended without one: it returned None or raised.
Failed(f) == fut[f] = "raised" \/ (fut[f] = "done" /\ ~Truthy(ret[f]))

\* The enumeration has been done.
Enumerated == phase \notin {"Idle", "Enumerating", "Failed"}

DefaultExt == <<".", "i", "s", "o">>

\* The name ends in ".iso" in any letter case, after a non-empty stem;
\* stated on the characters, without Suffix or Lower.
EndsWithIso(name) ==
    LET n == Len(name)
    IN  /\ n > 4
        /\ name[n - 3] = "."
        /\ name[n - 2] \in {"i", "I"}
        /\ name[n - 1] \in {"s", "S"}
        /\ name[n] \in {"o", "O"}

(***************************************************************************)
(* The claims.                                                             *)
(***************************************************************************)

\* C1: with a valid chunk size, when the process has ended every enumerated
\* candidate file has exactly one result taken by the collecting loop and
\* exactly one reported line: the digest line if its task succeeded, the
\* error line otherwise, also when the file was removed or made unreadable
\* after the enumeration.
C1_OneResultOneLinePerTask ==
    (exited /\ chunk_size > 0) =>
        \A f \in files :
            /\ f \in collected
            /\ digestLines[f] + errorLines[f] = 1
            /\ digestLines[f] = 1 <=> Succeeded(f)

\* C2: with a valid chunk size, when the process has ended after a scan of
\* K >= 2 candidates in which exactly one task failed, the collecting loop took
\* K results, one of them a failure, and each of the other K-1 tasks
\* finished with the digest of its own file and was counted as a success.
C2_OneFailureLeavesSiblingsIntact ==
    (/\ exited
     /\ chunk_size > 0
     /\ Cardinality(files) >= 2
     /\ Cardinality({f \in files : Failed(f)}) = 1) =>
        /\ collected = files
        /\ success_count = Cardinality(files) - 1
        /\ \A f \in files : ~Failed(f) => Succeeded(f) /\ ret[f] = HexDigest(Content(f))

\* C3: with a valid chunk size, no task ever ends by raising (a failure to
\* stat, open or read is returned as None with one error line), and a scan
\* that dispatched tasks ends with its summary and exit status 0.
C3_FileFailuresAreData ==
    chunk_size > 0 =>
        /\ \A f \in files : fut[f] # "raised"
        /\ \A f \in files : (fut[f] = "done" /\ ~Truthy(ret[f])) => errorLines[f] = 1
        /\ (exited /\ files # {}) => (Len(summary) = 1 /\ exitCode = 0)

\* C4: whenever the summary has been logged it has been logged once, as
\* succeeded/total with total the number of enumerated candidates and
\* succeeded the number of tasks that ended with a digest.
C4_SummaryCountsDigests ==
    summary # <<>> =>
        /\ Len(summary) = 1
        /\ summary[1][2] = Cardinality(files)
        /\ summary[1][1] = Cardinality({f \in files : Succeeded(f)})

\* C4, witness: a summary was logged for a scan in which one task failed
\* and another succeeded.
C4_Witness ==
    /\ summary # <<>>
    /\ \E f, g \in files : Succeeded(f) /\ Failed(g)

\* C5: when the process has ended, an invalid target directory led to the
\* Failed state with a non-zero exit status, no task, no report line and no
\* summary; every other run ended with exit status 0.
C5_ExitStatus ==
    exited =>
        IF ~isDir
        THEN /\ phase = "Failed"
             /\ exitCode # 0
             /\ \A f \in AllIds : fut[f] = "none" /\ digestLines[f] = 0 /\ errorLines[f] = 0
             /\ summary = <<>>
        ELSE exitCode = 0

\* C6: when the process has ended after scanning a valid directory with no
\* candidate file, it warned once, dispatched no task, logged the summary
\* 0/0 and exited with status 0.
C6_EmptyDirectorySummary ==
    (exited /\ isDir /\ Enumerate(dirents, ext) = {}) =>
        /\ warnings = 1
        /\ \A f \in AllIds : fut[f] = "none"
        /\ summary = << <<0, 0>> >>
        /\ exitCode = 0

\* C7: once the enumeration is done, an immediate regular file is a
\* candidate exactly when its suffix equals the configured extension
\* ignoring letter case on both sides.
C7_FilterIgnoresCase ==
    Enumerated =>
        \A e \in IterDir(dirents) :
            IsFile(e) => (e.id \in files <=> Lower(Suffix(e.name)) = Lower(ext))

\* C8: with the default extension, once the enumeration is done the list
\* holds exactly the immediate children that are regular files and whose
\* name ends in ".iso" in any letter case: no other entry, no directory, no
\* file of a subdirectory, and every such file.
C8_EnumeratesExactlyMatching ==
    (Enumerated /\ ext = DefaultExt) =>
        files = {e.id : e \in {d \in dirents :
                    d.parent = "top" /\ d.kind = "file" /\ EndsWithIso(d.name)}}

\* C8, witness: the default extension listed a file of a tree that also
\* holds a directory named like a candidate, with a matching file inside.
C8_Witness ==
    /\ Enumerated
    /\ ext = DefaultExt
    /\ files # {}
    /\ \E d, n \in dirents : d.kind = "dir" /\ EndsWithIso(d.name)
                             /\ n.parent = d.id /\ EndsWithIso(n.name)

\* C9: with a positive chunk size, the bytes folded into a task's hash are
\* at every moment the file's content up to the read offset, in order and
\* once each, and a returned digest is the digest of the whole content,
\* whatever the chunk size.
C9_ChunkSizeIndependence ==
    chunk_size > 0 =>
        \A f \in files :
            /\ fed[f] = SubSeq(Content(f), 1, pos[f])
            /\ Truthy(ret[f]) => ret[f] = HexDigest(Content(f))

\* C9, witness: a three-byte file was hashed one byte at a time.
C9_Witness ==
    \E f \in files :
        /\ Succeeded(f)
        /\ Len(Content(f)) = 3
        /\ chunk_size = 1

\* C10: with a zero or negative chunk size and no file-system fault, every
\* task still ends without raising and a returned digest is the digest of
\* the file's whole content.
C10_InvalidChunkSizeFallsBack ==
    (chunk_size <= 0 /\ faults = 0) =>
        \A f \in files :
            /\ fut[f] # "raised"
            /\ Truthy(ret[f]) => ret[f] = HexDigest(Content(f))

\* C11: an enumerated file of size 0 never has a byte folded into its
\* hash; a digest it returns is the digest of the empty input; and when its
\* task returned with the file intact and a chunk size that read accepts,
\* the task returned that digest and logged it on one digest line and no
\* error line, and once collected it is counted in success_count.
C11_EmptyFileDigest ==
    \A f \in files :
        Content(f) = <<>> =>
            /\ fed[f] = <<>>
            /\ Truthy(ret[f]) => ret[f] = HexDigest(<<>>)
            /\ (fut[f] = "done" /\ fs[f] = "ok") =>
                    /\ Succeeded(f)
                    /\ digestLines[f] = 1
                    /\ errorLines[f] = 0
                    /\ f \in collected =>
                         success_count = Cardinality({g \in collected : Truthy(ret[g])})
                                          /\ success_count >= 1

\* C11, witness: the summary counted an empty file that was reported with
\* the digest of the empty input.
C11_Witness ==
    \E f \in files :
        /\ Content(f) = <<>>
        /\ summary # <<>>
        /\ f \in collected
        /\ ret[f] = HexDigest(<<>>)
        /\ digestLines[f] = 1
        /\ success_count >= 1

\* C12: in every state the number of counted successes is at most the
\* number of candidate files, and at most the number of results taken.
C12_SucceededAtMostTotal ==
    /\ success_count <= Cardinality(files)
    /\ success_count <= Cardinality(collected)

\* C12, witness: every one of several candidates was counted as a success.
C12_Witness ==
    /\ Cardinality(files) >= 2
    /\ success_count = Cardinality(files)

\* C13: under fair scheduling every run reaches a state in which the
\* process has ended and every submitted task has finished, whichever files
\* are readable, unreadable, removed or on a failing device.
C13_ScanEventuallyEnds ==
    <>(exited /\ \A f \in AllIds : fut[f] # "none" => fut[f] \in {"done", "raised"})

\* C13, witness: the process ended after a scan in which one file could not
\* be opened and another was hashed.
C13_Witness ==
    /\ exited
    /\ \E f, g \in files :
        /\ fs[f] = "unreadable" /\ fut[f] = "done" /\ errorLines[f] = 1
        /\ Succeeded(g)

\* C14: with a valid chunk size, a scan that dispatched tasks has logged
\* its summary exactly once when the process ends; the summary is never
\* logged twice, and when it has been logged every dispatched task has
\* returned, is no longer running and has had its result taken.
C14_SummaryOnceAfterAllResults ==
    /\ (exited /\ chunk_size > 0 /\ files # {}) => Len(summary) = 1
    /\ Len(summary) <= 1
    /\ summary # <<>> =>
           \A f \in files : fut[f] = "done" /\ tpc[f] = "idle" /\ f \in collected

\* The lifecycle transitions that C15 allows.
LifecycleTransitions ==
    { <<"Idle", "Enumerating">>, <<"Enumerating", "Dispatching">>,
      <<"Dispatching", "Aggregating">>, <<"Aggregating", "Done">>,
      <<"Enumerating", "Done">>, <<"Idle", "Failed">> }

\* C15: with a valid chunk size, every change of the main thread's position
\* is one of Idle -> Enumerating -> Dispatching -> Aggregating -> Done,
\* Enumerating -> Done and Idle -> Failed (so Done and Failed are terminal
\* and no state is revisited), and a task is submitted only in Dispatching,
\* after the enumeration.
C15_LifecycleTransitions ==
    [][chunk_size > 0 =>
         /\ phase' # phase => <<phase, phase'>> \in LifecycleTransitions
         /\ \A f \in AllIds :
                (fut[f] = "none" /\ fut'[f] # "none") => phase = "Dispatching"]_vars

\* C16: every step changes the hash state, the read offset or the file
\* handle of at most one task, which is running; bytes are folded only by a
\* task in its read loop with its file open, and what is folded is the next
\* slice of the file, from the old offset to the new one; a task that has
\* started is never queued or started again.
C16_SequentialChunksOwnState ==
    [][/\ Cardinality({g \in AllIds : \/ fed'[g] # fed[g]
                                      \/ pos'[g] # pos[g]
                                      \/ handle'[g] # handle[g]}) <= 1
       /\ \A g \in AllIds :
            /\ (pos'[g] # pos[g] \/ handle'[g] # handle[g]) => fut[g] = "running"
            /\ fed'[g] # fed[g] =>
                 /\ fut[g] = "running" /\ tpc[g] = "read" /\ handle[g]
                 /\ pos'[g] > pos[g]
                 /\ fed'[g] = fed[g] \o SubSeq(Content(g), pos[g] + 1, pos'[g])
            /\ fut[g] = "running" => fut'[g] \in {"running", "done", "raised"}
            /\ fut[g] \in {"done", "raised"} => fut'[g] = fut[g]]_vars

\* C16, witness: two tasks are in their read loops at once, each with a
\* part of its own file folded, one of them in the middle of its file.
C16_Witness ==
    \E f, g \in files :
        /\ f # g
        /\ tpc[f] = "read" /\ tpc[g] = "read"
        /\ fed[f] # <<>> /\ fed[g] # <<>>
        /\ pos[f] < Len(Content(f))

\* C17: never more than MaxWorkers tasks run at once; a queued task starts
\* only when fewer than MaxWorkers are running; and a step of one task
\* changes the state of no other task, a running task staying so until it
\* finishes.
C17_BoundedParallelism ==
    /\ [](Cardinality(Running) <= MaxWorkers)
    /\ [][/\ \A f \in AllIds :
               /\ (fut[f] = "pending" /\ fut'[f] = "running") =>
                      Cardinality(Running) < MaxWorkers
               /\ fut[f] = "running" => fut'[f] \in {"running", "done", "raised"}
          /\ Cardinality({f \in AllIds : fut'[f] # fut[f] \/ tpc'[f] # tpc[f]}) <= 1]_vars

\* C17, witness: every worker is busy and a task waits in the queue.
C17_Witness ==
    /\ Cardinality(Running) = MaxWorkers
    /\ \E f \in files : fut[f] = "pending"

\* C18: with a positive chunk size, a task holds a digest only when its
\* read offset is the end of the file, the whole content was folded and no
\* error was logged for it; a task that logged an error holds no digest,
\* has no digest line and is not a success; and the successes counted are
\* results that carry the digest of the whole file.
C18_NoDigestOfPartialRead ==
    chunk_size > 0 =>
        /\ \A f \in files :
            /\ Truthy(ret[f]) =>
                 /\ pos[f] = Len(Content(f))
                 /\ fed[f] = Content(f)
                 /\ errorLines[f] = 0
            /\ errorLines[f] > 0 =>
                 /\ ret[f] = None
                 /\ digestLines[f] = 0
                 /\ ~Succeeded(f)
        /\ success_count =
             Cardinality({g \in collected : ret[g] = HexDigest(Content(g))})

\* C18, witness: a read failed after at least one chunk had been folded,
\* and the scan ended with its summary.
C18_Witness ==
    /\ chunk_size > 0
    /\ summary # <<>>
    /\ \E f \in files : fs[f] = "ioerror" /\ fed[f] # <<>> /\ errorLines[f] = 1
                        /\ f \in collected

\* C19: once check_blake2_sums has returned (Done, Failed) or raised
\* (Crashed), no task is queued or running.
C19_NoTaskOutlivesScan ==
    phase \in {"Done", "Failed", "Crashed"} =>
        \A f \in AllIds : fut[f] \notin {"pending", "running"}

\* C19, witness: check_blake2_sums raised out of the collecting loop while
\* another task's result had not been taken; that task has finished.
C19_Witness ==
    /\ phase = "Crashed"
    /\ \E f, g \in files : fut[f] = "raised" /\ fut[g] = "done" /\ g \notin collected

\* C20: a file is open only in a running task that is in its read loop; a
\* task that is returning or has finished holds no open file; no file is
\* open once the process has ended; and the open files never outnumber the
\* running tasks.
C20_HandlesClosed ==
    /\ \A f \in AllIds : handle[f] => (fut[f] = "running" /\ tpc[f] = "read")
    /\ Cardinality({f \in AllIds : handle[f]}) <= Cardinality(Running)
    /\ exited => \A f \in AllIds : ~handle[f]

\* C20, witness: the process ended after one task's read failed with its
\* file open and another task read its file to the end.
C20_Witness ==
    /\ exited
    /\ \E f, g \in files :
        /\ fs[f] = "ioerror" /\ errorLines[f] = 1 /\ fut[f] = "done"
        /\ Succeeded(g) /\ pos[g] > 0

====
